---- MODULE Spec2Model ----
(***************************************************************************)
(* The Express server of the Sora 2 quickstart (server/server.ts): the    *)
(* in-memory job simulator (MOCK_MODE) and the upstream proxy; and the    *)
(* page that talks to it (web/app.js), modelled further down.             *)
(*                                                                         *)
(* Time is counted in units of 1000 ms.  Timers are those of the Node     *)
(* event loop under normal execution: the callback of a timer runs when   *)
(* the clock reaches its expiry, i.e. the clock does not pass the expiry  *)
(* of a pending timer (the event loop never stalls for a whole unit).     *)
(* new Date().toISOString() is modelled by the clock value; ISO strings   *)
(* compare the way the instants they denote do.                           *)
(*                                                                         *)
(* Each step is one turn of the event loop: a route handler up to its     *)
(* reply or its await, the continuation of a handler whose fetch has      *)
(* settled, a timer callback, or the passing of one unit of time.         *)
(*                                                                         *)
(* The clock stops at MaxNow; a job is created only while both of its     *)
(* timers expire within that horizon.                                      *)
(***************************************************************************)
EXTENDS Integers, Sequences, FiniteSets, TLC

VARIABLES
    MOCK_MODE,      \* process.env.MOCK_MODE === "true", read once at load
    SORA_API_KEY,   \* process.env.SORA_API_KEY ?? "", read once at load
    now,            \* the wall clock
    mockJobs,       \* the Map<string, MockJob>: a function id -> MockJob
    timerTable,     \* the runtime's pending timers (set of handles)
    inflight,       \* upstream fetches awaiting their outcome
    fetchCount,     \* number of upstream requests issued so far
    response        \* the response the current step writes (NoResponse: none)

\* The page in the browser (web/app.js).
VARIABLES
    currentJobId,   \* let currentJobId
    pollTimer,      \* let pollTimer: null or the handle last stored in it
    timeouts,       \* the browser's pending timers (set of handles)
    polls,          \* calls of pollJob suspended at their fetch
    calls,          \* calls of submitPrompt, loadJob, cancelJob at their fetch
    jobIdEl,        \* the job id shown in #job-id
    shownStatus,    \* the status of the newest "Status: ..." line shown
    loading,        \* submitButton.disabled
    pollSeq,        \* number of calls of pollJob so far
    generation      \* number of submissions and loads that reset the page

serverVars == <<MOCK_MODE, SORA_API_KEY, now, mockJobs, timerTable, inflight,
                fetchCount, response>>

clientVars == <<currentJobId, pollTimer, timeouts, polls, calls, jobIdEl,
                shownStatus, loading, pollSeq, generation>>

vars == <<MOCK_MODE, SORA_API_KEY, now, mockJobs, timerTable, inflight,
          fetchCount, response, currentJobId, pollTimer, timeouts, polls,
          calls, jobIdEl, shownStatus, loading, pollSeq, generation>>

(***************************************************************************)
(* Bounds of the model.                                                    *)
(***************************************************************************)
MaxJobs == 2
MaxNow == 5
MaxFetches == 1
MaxPolls == 3
MaxLoads == 2

(***************************************************************************)
(* Program constants.                                                      *)
(***************************************************************************)
CompletionDelay == 5

\* Mutant: the first delay as long as the second.
QueueDelay_AsCompletion == CompletionDelay

QueueDelay == 1

\* The delays of the page's two setTimeout calls, in the same unit.
PollDelay == 2
RetryDelay == 4

(***************************************************************************)
(* JavaScript values appearing in request bodies.                          *)
(***************************************************************************)
Undefined == [t |-> "undefined"]
Null == [t |-> "null"]
Str(s) == [t |-> "string", v |-> s]
Num(n) == [t |-> "number", n |-> n]

typeof(x) == IF x.t = "null" THEN "object" ELSE x.t

Truthy(x) ==
    CASE x.t = "string" -> Len(x.v) > 0
      [] x.t = "number" -> x.n # 0
      [] OTHER -> FALSE

IsWhitespace(c) == c \in {" ", "\t", "\n"}

RECURSIVE TrimStart(_)
TrimStart(s) ==
    IF s = <<>> THEN <<>>
    ELSE IF IsWhitespace(Head(s)) THEN TrimStart(Tail(s)) ELSE s

RECURSIVE TrimEnd(_)
TrimEnd(s) ==
    IF s = <<>> THEN <<>>
    ELSE IF IsWhitespace(s[Len(s)]) THEN TrimEnd(SubSeq(s, 1, Len(s) - 1)) ELSE s

trim(s) == TrimEnd(TrimStart(s))

(***************************************************************************)
(* Inputs.                                                                 *)
(***************************************************************************)
\* The identifiers randomUUID() hands out, in the order it hands them out.
UuidSeq == <<"uuid-1", "uuid-2", "uuid-3">>
Ids == {UuidSeq[i] : i \in DOMAIN UuidSeq}
RequestIds == Ids \cup {"unknown"}

CatPrompt == Str(<<"c", "a", "t">>)

EmptyBody ==
    [prompt |-> Undefined, duration |-> Undefined, aspectRatio |-> Undefined,
     width |-> Undefined, height |-> Undefined]

Bodies ==
    { EmptyBody,
      [EmptyBody EXCEPT !.prompt = Null],
      [EmptyBody EXCEPT !.prompt = Str(<<>>)],
      [EmptyBody EXCEPT !.prompt = Num(7), !.duration = Num(5)],
      [EmptyBody EXCEPT !.prompt = Num(0)],
      [EmptyBody EXCEPT !.prompt = CatPrompt, !.duration = Num(5),
                        !.aspectRatio = Str(<<" ", " ">>),
                        !.width = Num(1280), !.height = Str(<<"7", "2", "0">>)] }

UpstreamData ==
    { [id |-> "video_1", status |-> "in_progress"],
      [error |-> "upstream error"] }

UpstreamStatuses == {200, 201, 204, 404, 500}

\* What `await fetch(...)` followed by `response.json()` can produce.
UpstreamOutcomes ==
    { [kind |-> "reject", message |-> m] : m \in {"ECONNREFUSED", "ETIMEDOUT"} }
    \cup { [kind |-> "response", status |-> s, json |-> FALSE] :
             s \in UpstreamStatuses }
    \cup { [kind |-> "response", status |-> s, json |-> TRUE, data |-> d] :
             s \in UpstreamStatuses, d \in UpstreamData }

ok(status) == status >= 200 /\ status <= 299

(***************************************************************************)
(* Responses.                                                              *)
(***************************************************************************)
NoBody == [t |-> "undefined"]
NoResponse == [op |-> "none", id |-> "", status |-> 0, body |-> NoBody]

OptionalFields == {"result", "error"}

\* res.json(value): JSON.stringify drops the properties whose value is
\* undefined.
json(value) ==
    [k \in {f \in DOMAIN value :
              ~(f \in OptionalFields /\ value[f] = Undefined)} |-> value[k]]

Reply(op, id, status, body) ==
    [op |-> op, id |-> id, status |-> status, body |-> body]

ErrorBody(msg) == [error |-> msg]

\* Mutant: the error body sent without the 404 status.
NotFound_Status200(op, id) == Reply(op, id, 200, ErrorBody("Job not found"))

\* res.status(404).json({ error: "Job not found" })
NotFound(op, id) == Reply(op, id, 404, ErrorBody("Job not found"))

(***************************************************************************)
(* The simulator.                                                          *)
(***************************************************************************)
Terminal == {"succeeded", "failed", "canceled"}

\* Mutant: an identifier generator that repeats itself.
randomUUID_Repeating == UuidSeq[1]

\* randomUUID(): version 4 UUIDs are taken not to repeat within the life of
\* the process; which fresh value comes is immaterial, so the n-th call is
\* given the n-th identifier.
randomUUID == UuidSeq[Cardinality(DOMAIN mockJobs) + 1]

\* setTimeout(callback, delay): the handle of the timer it starts.
setTimeout(id, cb, delay) == [job |-> id, cb |-> cb, expiry |-> now + delay]

\* Mutant: the loop over job.timers clears nothing.
clearTimers_None(job) == timerTable

\* clearTimeout over job.timers.
clearTimers(job) == timerTable \ {job.timers[i] : i \in DOMAIN job.timers}

serializeJob(job) ==
    [id |-> job.id, status |-> job.status, created_at |-> job.created_at,
     updated_at |-> job.updated_at, result |-> job.result,
     error |-> job.error, options |-> job.options]

VideoUrl(id) == <<"https://cdn.openai.com/sora/videos/mock-", id, ".mp4">>

\* The MockJob object createMockJob builds, timers pushed.
NewMockJob(id, options) ==
    [id |-> id, status |-> "queued", created_at |-> now, updated_at |-> now,
     result |-> Undefined, error |-> Undefined, options |-> options,
     timers |-> << setTimeout(id, "queueTimer", QueueDelay),
                   setTimeout(id, "completionTimer", CompletionDelay) >>]

\* The value cancelMockJob returns for a job that is already terminal.
CancelTerminalResult(job) == job

\* The value cancelMockJob returns; only called on an id of the registry.
cancelMockJobResult(id) ==
    IF mockJobs[id].status \in Terminal
    THEN CancelTerminalResult(mockJobs[id])
    ELSE serializeJob([mockJobs[id] EXCEPT !.status = "canceled",
                                           !.updated_at = now])

\* Mutant: cancelMockJob drops the job from the registry.
cancelMockJob_Deletes(id) ==
    IF mockJobs[id].status \in Terminal
    THEN UNCHANGED <<mockJobs, timerTable>>
    ELSE /\ timerTable' = clearTimers(mockJobs[id])
         /\ mockJobs' = [k \in DOMAIN mockJobs \ {id} |-> mockJobs[k]]

\* Mutant: cancelMockJob without its check for a terminal status.
cancelMockJob_NoTerminalCheck(id) ==
    /\ timerTable' = clearTimers(mockJobs[id])
    /\ mockJobs' = [mockJobs EXCEPT ![id].status = "canceled",
                                    ![id].updated_at = now]

\* The effect of cancelMockJob on the registry and on the timers.
cancelMockJob(id) ==
    IF mockJobs[id].status \in Terminal
    THEN UNCHANGED <<mockJobs, timerTable>>
    ELSE /\ timerTable' = clearTimers(mockJobs[id])
         /\ mockJobs' = [mockJobs EXCEPT ![id].status = "canceled",
                                         ![id].updated_at = now]

\* Mutant: the queue callback leaves updated_at alone.
QueueTimerEffect_NoTouch(job) == [job EXCEPT !.status = "processing"]

\* The callback of queueTimer.
QueueTimerEffect(job) ==
    [job EXCEPT !.status = "processing", !.updated_at = now]

\* Mutant: the completion callback forgets the result.
CompletionTimerEffect_NoResult(job) ==
    [job EXCEPT !.status = "succeeded", !.updated_at = now]

\* The callback of completionTimer.
CompletionTimerEffect(job) ==
    [job EXCEPT !.status = "succeeded", !.updated_at = now,
                !.result = [video_url |-> VideoUrl(job.id)]]

Due(h) == h \in timerTable /\ h.expiry <= now

QueueTimer(id) ==
    /\ id \in DOMAIN mockJobs
    /\ Due(mockJobs[id].timers[1])
    /\ timerTable' = timerTable \ {mockJobs[id].timers[1]}
    /\ mockJobs' = [mockJobs EXCEPT ![id] = QueueTimerEffect(mockJobs[id])]
    /\ response' = NoResponse
    /\ UNCHANGED <<MOCK_MODE, SORA_API_KEY, now, inflight, fetchCount>>
    /\ UNCHANGED clientVars

CompletionTimer(id) ==
    /\ id \in DOMAIN mockJobs
    /\ Due(mockJobs[id].timers[2])
    /\ timerTable' = timerTable \ {mockJobs[id].timers[2]}
    /\ mockJobs' = [mockJobs EXCEPT ![id] = CompletionTimerEffect(mockJobs[id])]
    /\ response' = NoResponse
    /\ UNCHANGED <<MOCK_MODE, SORA_API_KEY, now, inflight, fetchCount>>
    /\ UNCHANGED clientVars

\* The clock advances; it does not pass the expiry of a pending timer.
Tick ==
    /\ now < MaxNow
    /\ \A h \in timerTable : h.expiry > now
    /\ now' = now + 1
    /\ response' = NoResponse
    /\ UNCHANGED <<MOCK_MODE, SORA_API_KEY, mockJobs, timerTable, inflight,
                   fetchCount>>
    /\ UNCHANGED clientVars

(***************************************************************************)
(* The routes.                                                             *)
(***************************************************************************)
\* Mutant: the check of the prompt's type without the check for emptiness.
ValidPrompt_TypeOnly(body) == typeof(body.prompt) = "string"

\* The negation of `!prompt || typeof prompt !== "string"`.
ValidPrompt(body) == Truthy(body.prompt) /\ typeof(body.prompt) = "string"

\* options[key] = value
Put(options, key, value) ==
    [k \in DOMAIN options \cup {key} |->
        IF k = key THEN value ELSE options[k]]

\* The JobOptions object POST /api/generate builds from the request body.
BuildOptions(body) ==
    LET o0 == [prompt |-> body.prompt]
        o1 == IF typeof(body.duration) = "number"
              THEN Put(o0, "duration", body.duration) ELSE o0
        o2 == IF /\ typeof(body.aspectRatio) = "string"
                 /\ Len(trim(body.aspectRatio.v)) > 0
              THEN Put(o1, "aspect_ratio", body.aspectRatio) ELSE o1
        o3 == IF typeof(body.width) = "number"
              THEN Put(o2, "width", body.width) ELSE o2
    IN  IF typeof(body.height) = "number"
        THEN Put(o3, "height", body.height) ELSE o3

\* The body POST /api/generate sends upstream.
UpstreamCreateBody(body) ==
    [prompt |-> body.prompt, duration |-> body.duration,
     aspect_ratio |-> body.aspectRatio, width |-> body.width,
     height |-> body.height]

ConfigError == ErrorBody("SORA_API_KEY is not configured")

\* Mutant: the credential is never checked.
KeyConfigured_Unchecked == TRUE

\* The negation of `!SORA_API_KEY`.
KeyConfigured == SORA_API_KEY # ""

\* await fetch(...): the handler is suspended with one request upstream.
Fetch(op, id, sent) ==
    /\ fetchCount < MaxFetches
    /\ fetchCount' = fetchCount + 1
    /\ inflight' = inflight \cup
          {[op |-> op, id |-> id, seq |-> fetchCount + 1,
            authorization |-> SORA_API_KEY, body |-> sent]}
    /\ response' = NoResponse

\* createMockJob(options), and the 202 reply of the route.
createMockJob(options) ==
    /\ Cardinality(DOMAIN mockJobs) < MaxJobs
    /\ now + CompletionDelay <= MaxNow
    /\ LET id == randomUUID
           job == NewMockJob(id, options) IN
          /\ timerTable' = timerTable \cup {job.timers[1], job.timers[2]}
          /\ mockJobs' = [k \in DOMAIN mockJobs \cup {id} |->
                             IF k = id THEN job ELSE mockJobs[k]]
          /\ response' = Reply("create", "", 202, json(serializeJob(job)))

\* app.post("/api/generate")
PostGenerate(body) ==
    /\ IF ~ValidPrompt(body)
       THEN /\ response' = Reply("create", "", 400, ErrorBody("Prompt is required"))
            /\ UNCHANGED <<mockJobs, timerTable, inflight, fetchCount>>
       ELSE IF MOCK_MODE
       THEN /\ createMockJob(BuildOptions(body))
            /\ UNCHANGED <<inflight, fetchCount>>
       ELSE IF ~KeyConfigured
       THEN /\ response' = Reply("create", "", 500, ConfigError)
            /\ UNCHANGED <<mockJobs, timerTable, inflight, fetchCount>>
       ELSE /\ Fetch("create", "", UpstreamCreateBody(body))
            /\ UNCHANGED <<mockJobs, timerTable>>
    /\ UNCHANGED <<MOCK_MODE, SORA_API_KEY, now>>
    /\ UNCHANGED clientVars

\* Mutant: the credential is looked at before the mode flag.
GetJob_KeyFirst(id) ==
    /\ IF ~KeyConfigured
       THEN /\ response' = Reply("get", id, 500, ConfigError)
            /\ UNCHANGED <<mockJobs, timerTable, inflight, fetchCount>>
       ELSE IF MOCK_MODE
       THEN /\ response' =
                 IF id \notin DOMAIN mockJobs
                 THEN NotFound("get", id)
                 ELSE Reply("get", id, 200, json(serializeJob(mockJobs[id])))
            /\ UNCHANGED <<mockJobs, timerTable, inflight, fetchCount>>
       ELSE /\ Fetch("get", id, NoBody)
            /\ UNCHANGED <<mockJobs, timerTable>>
    /\ UNCHANGED <<MOCK_MODE, SORA_API_KEY, now>>
    /\ UNCHANGED clientVars

\* app.get("/api/jobs/:id")
GetJob(id) ==
    /\ IF MOCK_MODE
       THEN /\ response' =
                 IF id \notin DOMAIN mockJobs
                 THEN NotFound("get", id)
                 ELSE Reply("get", id, 200, json(serializeJob(mockJobs[id])))
            /\ UNCHANGED <<mockJobs, timerTable, inflight, fetchCount>>
       ELSE IF ~KeyConfigured
       THEN /\ response' = Reply("get", id, 500, ConfigError)
            /\ UNCHANGED <<mockJobs, timerTable, inflight, fetchCount>>
       ELSE /\ Fetch("get", id, NoBody)
            /\ UNCHANGED <<mockJobs, timerTable>>
    /\ UNCHANGED <<MOCK_MODE, SORA_API_KEY, now>>
    /\ UNCHANGED clientVars

\* app.delete("/api/jobs/:id")
DeleteJob(id) ==
    /\ IF MOCK_MODE
       THEN IF id \notin DOMAIN mockJobs
            THEN /\ response' = NotFound("cancel", id)
                 /\ UNCHANGED <<mockJobs, timerTable, inflight, fetchCount>>
            ELSE /\ response' = Reply("cancel", id, 200, json(cancelMockJobResult(id)))
                 /\ cancelMockJob(id)
                 /\ UNCHANGED <<inflight, fetchCount>>
       ELSE IF ~KeyConfigured
       THEN /\ response' = Reply("cancel", id, 500, ConfigError)
            /\ UNCHANGED <<mockJobs, timerTable, inflight, fetchCount>>
       ELSE /\ Fetch("cancel", id, NoBody)
            /\ UNCHANGED <<mockJobs, timerTable>>
    /\ UNCHANGED <<MOCK_MODE, SORA_API_KEY, now>>
    /\ UNCHANGED clientVars

\* The value a failed await throws: the rejection of fetch, or the
\* SyntaxError of response.json() on a body that is not JSON.
ErrorOf(o) == IF o.kind = "reject" THEN o.message ELSE "SyntaxError"

\* Mutant: the catch block puts the exception's message in the reply.
CatchBlock_LeaksError(op, id, diagnostic, error) ==
    Reply(op, id, 500, ErrorBody(error))

\* The catch block of a route: the error is logged, the reply is fixed.
CatchBlock(op, id, diagnostic, error) ==
    Reply(op, id, 500, ErrorBody(diagnostic))

\* Mutant: a created job relayed with res.json(data), status 200.
CreateRelay_Status200(o) ==
    IF o.kind = "reject" \/ ~o.json
    THEN CatchBlock("create", "", "Failed to create video generation job", ErrorOf(o))
    ELSE IF ~ok(o.status)
    THEN Reply("create", "", o.status, o.data)
    ELSE Reply("create", "", 200, o.data)

\* What POST /api/generate replies once its fetch has settled.
CreateRelay(o) ==
    IF o.kind = "reject" \/ ~o.json
    THEN CatchBlock("create", "", "Failed to create video generation job", ErrorOf(o))
    ELSE IF ~ok(o.status)
    THEN Reply("create", "", o.status, o.data)
    ELSE Reply("create", "", 202, o.data)

\* Mutant: an upstream error relayed without its status code.
GetRelay_DropsStatus(id, o) ==
    IF o.kind = "reject" \/ ~o.json
    THEN CatchBlock("get", id, "Failed to fetch video generation job", ErrorOf(o))
    ELSE Reply("get", id, 200, o.data)

\* What GET /api/jobs/:id replies once its fetch has settled.
GetRelay(id, o) ==
    IF o.kind = "reject" \/ ~o.json
    THEN CatchBlock("get", id, "Failed to fetch video generation job", ErrorOf(o))
    ELSE IF ~ok(o.status)
    THEN Reply("get", id, o.status, o.data)
    ELSE Reply("get", id, 200, o.data)

\* Mutant: the upstream body is read before the test for 204.
CancelRelay_ReadsBodyFirst(id, o) ==
    IF o.kind = "reject" \/ ~o.json
    THEN CatchBlock("cancel", id, "Failed to cancel video generation job", ErrorOf(o))
    ELSE IF o.status = 204
    THEN Reply("cancel", id, 204, NoBody)
    ELSE IF ~ok(o.status)
    THEN Reply("cancel", id, o.status, o.data)
    ELSE Reply("cancel", id, 200, o.data)

\* What DELETE /api/jobs/:id replies once its fetch has settled.
CancelRelay(id, o) ==
    IF o.kind = "reject"
    THEN CatchBlock("cancel", id, "Failed to cancel video generation job", ErrorOf(o))
    ELSE IF o.status = 204
    THEN Reply("cancel", id, 204, NoBody)
    ELSE IF ~o.json
    THEN CatchBlock("cancel", id, "Failed to cancel video generation job", ErrorOf(o))
    ELSE IF ~ok(o.status)
    THEN Reply("cancel", id, o.status, o.data)
    ELSE Reply("cancel", id, 200, o.data)

\* The fetch of a suspended handler settles and the handler runs to its end.
Resume(r, o) ==
    /\ r \in inflight
    /\ inflight' = inflight \ {r}
    /\ response' = CASE r.op = "create" -> CreateRelay(o)
                     [] r.op = "get" -> GetRelay(r.id, o)
                     [] r.op = "cancel" -> CancelRelay(r.id, o)
    /\ UNCHANGED <<MOCK_MODE, SORA_API_KEY, now, mockJobs, timerTable, fetchCount>>
    /\ UNCHANGED clientVars

(***************************************************************************)
(* The page (web/app.js).  Each step is one turn of the browser's event   *)
(* loop: an event handler up to its await, the continuation of a handler  *)
(* whose fetch has settled, or the callback of a timer.  The page has no  *)
(* clock of its own: a pending timer may fire at any later turn.  The     *)
(* server's answers are drawn from ClientOutcomes; in proxy mode the body *)
(* is whatever the upstream sent.  Of the status list only the newest     *)
(* "Status: ..." line is kept.                                            *)
(***************************************************************************)
JobA == Str(<<"a">>)
JobB == Str(<<"b">>)

\* What the user can type in the two text inputs.
TextInputs == { <<>>, <<" ">>, <<"a">>, <<"b", " ">> }

\* The values of the width and height inputs after Number(...).
SizeInputs == {0, 720}

JobStatuses ==
    {"queued", "processing", "in_progress", "running", "completed",
     "succeeded", "failed", "canceled"}

\* The bodies a read of job id can carry; a field a body lacks reads as
\* undefined.
JobData(id) ==
    { [id |-> id, status |-> st, error |-> Undefined] : st \in JobStatuses }
    \cup { [id |-> id, status |-> "failed", error |-> Str(<<"x">>)] }

ErrorData == [id |-> Undefined, status |-> "undefined", error |-> Str(<<"e">>)]

\* What `await fetch(...)` and `response.json()` can produce for a request
\* about job id.
ClientOutcomes(id) ==
    { [kind |-> "reject"] }
    \cup { [kind |-> "response", status |-> st, json |-> FALSE] :
             st \in {204, 404, 502} }
    \cup { [kind |-> "response", status |-> 200, json |-> TRUE, data |-> d] :
             d \in JobData(id) }
    \cup { [kind |-> "response", status |-> st, json |-> TRUE,
            data |-> ErrorData] : st \in {404, 500} }

\* What they can produce for POST /api/generate.
SubmitOutcomes ==
    { [kind |-> "reject"],
      [kind |-> "response", status |-> 502, json |-> FALSE],
      [kind |-> "response", status |-> 400, json |-> TRUE, data |-> ErrorData],
      [kind |-> "response", status |-> 500, json |-> TRUE, data |-> ErrorData],
      [kind |-> "response", status |-> 202, json |-> TRUE,
       data |-> [id |-> Undefined, status |-> "queued", error |-> Undefined]] }
    \cup { [kind |-> "response", status |-> 202, json |-> TRUE,
            data |-> [id |-> id, status |-> "queued", error |-> Undefined]] :
             id \in {JobA, JobB} }

normalizeStatus(status) ==
    CASE status \in {"in_progress", "running"} -> "processing"
      [] status = "completed" -> "succeeded"
      [] OTHER -> status

\* The variables the page's functions read and write, as one value.
Page ==
    [currentJobId |-> currentJobId, pollTimer |-> pollTimer,
     timeouts |-> timeouts, jobIdEl |-> jobIdEl, shownStatus |-> shownStatus]

Commit(c) ==
    /\ currentJobId' = c.currentJobId
    /\ pollTimer' = c.pollTimer
    /\ timeouts' = c.timeouts
    /\ jobIdEl' = c.jobIdEl
    /\ shownStatus' = c.shownStatus

stopPolling(c) ==
    IF c.pollTimer # Null
    THEN [c EXCEPT !.timeouts = @ \ {c.pollTimer}, !.pollTimer = Null]
    ELSE c

resetStatus(c) == [c EXCEPT !.jobIdEl = Str(<<>>), !.shownStatus = "none"]

\* stopPolling(); currentJobId = null;
Finished(c) == [stopPolling(c) EXCEPT !.currentJobId = Null]

handleJobUpdate(c, job) ==
    LET status == normalizeStatus(job.status)
        c0 == [c EXCEPT !.jobIdEl = job.id, !.shownStatus = status]
        c1 == IF status = "succeeded" THEN Finished(c0) ELSE c0
        c2 == IF status = "failed" /\ Truthy(job.error) THEN Finished(c1) ELSE c1
    IN  IF status = "canceled" THEN Finished(c2) ELSE c2

\* pollTimer = setTimeout(() => pollJob(jobId), delay), in the call p.
SetPollTimer(c, p, delay) ==
    LET h == [t |-> "timeout", job |-> p.job, n |-> p.n, gen |-> p.gen,
              delay |-> delay]
    IN  [c EXCEPT !.pollTimer = h, !.timeouts = @ \cup {h}]

\* pollJob(jobId) up to its await; gen is the reset it descends from.
StartPoll(jobId, gen) ==
    /\ pollSeq < MaxPolls
    /\ pollSeq' = pollSeq + 1
    /\ polls' = polls \cup {[job |-> jobId, n |-> pollSeq + 1, gen |-> gen]}

\* pollJob from `response.ok` on.
PollResume(p, o) ==
    /\ p \in polls
    /\ polls' = polls \ {p}
    /\ IF o.kind = "reject" \/ ~ok(o.status) \/ ~o.json
       THEN Commit(SetPollTimer(Page, p, RetryDelay))
       ELSE LET c == handleJobUpdate(Page, o.data)
            IN  IF o.data.status \in {"queued", "processing"}
                THEN Commit(SetPollTimer(c, p, PollDelay))
                ELSE Commit(c)
    /\ UNCHANGED <<calls, loading, pollSeq, generation>>
    /\ UNCHANGED serverVars

\* The callback of a timer set by pollJob.
PollTimerFires(h) ==
    /\ h \in timeouts
    /\ timeouts' = timeouts \ {h}
    /\ StartPoll(h.job, h.gen)
    /\ UNCHANGED <<currentJobId, pollTimer, calls, jobIdEl, shownStatus,
                   loading, generation>>
    /\ UNCHANGED serverVars

\* submitPrompt up to its await.
SubmitPrompt(prompt, sizeMode, width, height) ==
    /\ ~loading
    /\ generation < MaxLoads
    /\ IF trim(prompt) = <<>>
       THEN UNCHANGED <<currentJobId, pollTimer, timeouts, jobIdEl,
                        shownStatus, loading, calls, generation>>
       ELSE /\ Commit(resetStatus(Finished(Page)))
            /\ generation' = generation + 1
            /\ IF sizeMode # "ratio" /\ (width = 0 \/ height = 0)
               THEN UNCHANGED <<loading, calls>>
               ELSE /\ loading' = TRUE
                    /\ calls' = calls \cup
                          {[op |-> "submit", job |-> Null,
                            gen |-> generation + 1]}
    /\ UNCHANGED <<polls, pollSeq>>
    /\ UNCHANGED serverVars

\* submitPrompt from `response.json()` on.
SubmitResume(c, o) ==
    /\ c \in calls /\ c.op = "submit"
    /\ calls' = calls \ {c}
    /\ loading' = FALSE
    /\ IF o.kind = "reject" \/ ~o.json \/ ~ok(o.status)
       THEN UNCHANGED <<currentJobId, pollTimer, timeouts, jobIdEl,
                        shownStatus, polls, pollSeq>>
       ELSE /\ currentJobId' = o.data.id
            /\ IF ~Truthy(o.data.id)
               THEN UNCHANGED <<polls, pollSeq>>
               ELSE StartPoll(o.data.id, c.gen)
            /\ UNCHANGED <<pollTimer, timeouts, jobIdEl, shownStatus>>
    /\ UNCHANGED generation
    /\ UNCHANGED serverVars

\* loadJob up to its await.
LoadJob(input) ==
    /\ generation < MaxLoads
    /\ generation' = generation + 1
    /\ Commit(resetStatus(Finished(Page)))
    /\ IF trim(input) = <<>>
       THEN UNCHANGED calls
       ELSE calls' = calls \cup
               {[op |-> "load", job |-> Str(trim(input)),
                 gen |-> generation + 1]}
    /\ UNCHANGED <<polls, loading, pollSeq>>
    /\ UNCHANGED serverVars

\* loadJob from `response.status === 404` on.
LoadResume(c, o) ==
    /\ c \in calls /\ c.op = "load"
    /\ calls' = calls \ {c}
    /\ IF o.kind = "reject"
       THEN /\ Commit([Page EXCEPT !.currentJobId = Null])
            /\ UNCHANGED <<polls, pollSeq>>
       ELSE IF o.status = 404
       THEN UNCHANGED <<currentJobId, pollTimer, timeouts, jobIdEl,
                        shownStatus, polls, pollSeq>>
       ELSE IF ~ok(o.status) \/ ~o.json
       THEN /\ Commit([Page EXCEPT !.currentJobId = Null])
            /\ UNCHANGED <<polls, pollSeq>>
       ELSE LET job == o.data
                active == normalizeStatus(job.status) \in {"queued", "processing"}
                c1 == IF active THEN [Page EXCEPT !.currentJobId = job.id]
                      ELSE Page
                c2 == handleJobUpdate(c1, job)
            IN  IF active
                THEN /\ Commit(c2)
                     /\ StartPoll(job.id, c.gen)
                ELSE /\ Commit([c2 EXCEPT !.currentJobId = Null])
                     /\ UNCHANGED <<polls, pollSeq>>
    /\ UNCHANGED <<loading, generation>>
    /\ UNCHANGED serverVars

\* cancelJob up to its await; a second click while the first request for
\* the same job is under way is not modelled.
CancelJob ==
    /\ Truthy(currentJobId)
    /\ \A c \in calls : ~(c.op = "cancel" /\ c.job = currentJobId)
    /\ calls' = calls \cup
          {[op |-> "cancel", job |-> currentJobId, gen |-> generation]}
    /\ UNCHANGED <<currentJobId, pollTimer, timeouts, polls, jobIdEl,
                   shownStatus, loading, pollSeq, generation>>
    /\ UNCHANGED serverVars

\* cancelJob from `response.ok` on.
CancelResume(c, o) ==
    /\ c \in calls /\ c.op = "cancel"
    /\ calls' = calls \ {c}
    /\ IF o.kind = "reject"
       THEN UNCHANGED <<currentJobId, pollTimer, timeouts, jobIdEl, shownStatus>>
       ELSE IF ~ok(o.status) /\ o.status # 404
       THEN UNCHANGED <<currentJobId, pollTimer, timeouts, jobIdEl, shownStatus>>
       ELSE IF o.status = 204
       THEN Commit(handleJobUpdate(Page,
                [id |-> currentJobId, status |-> "canceled",
                 error |-> Undefined]))
       ELSE IF ~o.json
       THEN UNCHANGED <<currentJobId, pollTimer, timeouts, jobIdEl, shownStatus>>
       ELSE Commit(handleJobUpdate(Page, [o.data EXCEPT !.id = currentJobId]))
    /\ UNCHANGED <<polls, loading, pollSeq, generation>>
    /\ UNCHANGED serverVars

(***************************************************************************)
(* The specification.                                                      *)
(***************************************************************************)
Init ==
    /\ MOCK_MODE \in BOOLEAN
    /\ SORA_API_KEY \in {"", "sk-test"}
    /\ now = 0
    /\ mockJobs = <<>>
    /\ timerTable = {}
    /\ inflight = {}
    /\ fetchCount = 0
    /\ response = NoResponse
    /\ currentJobId = Null
    /\ pollTimer = Null
    /\ timeouts = {}
    /\ polls = {}
    /\ calls = {}
    /\ jobIdEl = Str(<<>>)
    /\ shownStatus = "none"
    /\ loading = FALSE
    /\ pollSeq = 0
    /\ generation = 0

Next ==
    \/ \E body \in Bodies : PostGenerate(body)
    \/ \E id \in RequestIds : GetJob(id)
    \/ \E id \in RequestIds : DeleteJob(id)
    \/ \E id \in Ids : QueueTimer(id)
    \/ \E id \in Ids : CompletionTimer(id)
    \/ Tick
    \/ \E r \in inflight, o \in UpstreamOutcomes : Resume(r, o)

Spec == Init /\ [][Next]_vars

\* The server started with MOCK_MODE=true: no handler ever awaits a fetch.
InitSim == Init /\ MOCK_MODE

NextSim ==
    \/ \E body \in Bodies : PostGenerate(body)
    \/ \E id \in RequestIds : GetJob(id)
    \/ \E id \in RequestIds : DeleteJob(id)
    \/ \E id \in Ids : QueueTimer(id)
    \/ \E id \in Ids : CompletionTimer(id)
    \/ Tick

SimSpec == InitSim /\ [][NextSim]_vars

\* The event loop runs the callback of an expired timer, and time passes.
FairSimSpec ==
    /\ SimSpec
    /\ WF_vars(Tick)
    /\ \A id \in Ids : WF_vars(QueueTimer(id)) /\ WF_vars(CompletionTimer(id))

\* The page alone, against a server in proxy mode.
InitClient == Init /\ ~MOCK_MODE /\ SORA_API_KEY # ""

NextClient ==
    \/ \E prompt \in TextInputs, sizeMode \in {"ratio", "custom"},
          width \in SizeInputs, height \in SizeInputs :
          SubmitPrompt(prompt, sizeMode, width, height)
    \/ \E c \in calls, o \in SubmitOutcomes : SubmitResume(c, o)
    \/ \E input \in TextInputs : LoadJob(input)
    \/ \E c \in calls : \E o \in ClientOutcomes(c.job) : LoadResume(c, o)
    \/ CancelJob
    \/ \E c \in calls : \E o \in ClientOutcomes(c.job) : CancelResume(c, o)
    \/ \E h \in timeouts : PollTimerFires(h)
    \/ \E p \in polls : \E o \in ClientOutcomes(p.job) : PollResume(p, o)

ClientSpec == InitClient /\ [][NextClient]_vars

(***************************************************************************)
(* Properties of the simulator.                                            *)
(***************************************************************************)
Registered == DOMAIN mockJobs

\* The status of a job; "absent" for an identifier that is not registered.
StatusOf(id) == IF id \in Registered THEN mockJobs[id].status ELSE "absent"

TimersOf(id) == {mockJobs[id].timers[i] : i \in DOMAIN mockJobs[id].timers}

\* C1: cancelling a queued or processing job makes it canceled in that very
\* step (in the registry and in the reply), a canceled job has no pending
\* timer, and a canceled job stays canceled whatever happens next.
C1_CancelIsFinal ==
    /\ [](\A id \in Registered :
            mockJobs[id].status = "canceled" => TimersOf(id) \cap timerTable = {})
    /\ [][\A id \in Registered :
            /\ (mockJobs[id].status \in {"queued", "processing"} /\ DeleteJob(id))
                  => /\ mockJobs'[id].status = "canceled"
                     /\ response'.status = 200
                     /\ response'.body.status = "canceled"
            /\ mockJobs[id].status = "canceled"
                  => mockJobs'[id].status = "canceled"]_vars

\* A job canceled strictly before its first timer was due, seen after both
\* original delays have elapsed.
C1_Witness ==
    \E id \in Registered :
        /\ mockJobs[id].status = "canceled"
        /\ mockJobs[id].updated_at < mockJobs[id].created_at + QueueDelay
        /\ now >= mockJobs[id].created_at + CompletionDelay
        /\ response = Reply("get", id, 200, json(serializeJob(mockJobs[id])))

\* C2: no step changes the status of a job that is succeeded, failed or
\* canceled.
C2_TerminalIsFinal ==
    [][\A id \in Registered :
          mockJobs[id].status \in Terminal
             => /\ id \in DOMAIN mockJobs'
                /\ mockJobs'[id].status = mockJobs[id].status]_vars

\* A succeeded job on which Cancel has just been called, next to a job that
\* was canceled earlier.
C2_Witness ==
    \E id \in Registered, other \in Registered :
        /\ mockJobs[id].status = "succeeded"
        /\ mockJobs[other].status = "canceled"
        /\ response.op = "cancel" /\ response.id = id

\* C3: a job that is not cancelled ends up succeeded, and it gets there
\* through processing: a job becomes processing only from queued and
\* succeeded only from processing; it carries no result before it is
\* succeeded.
C3_Lifecycle ==
    /\ \A id \in Ids :
          (StatusOf(id) \in {"queued", "processing"})
             ~> (StatusOf(id) \in {"succeeded", "canceled"})
    /\ [](\A id \in Registered :
            mockJobs[id].status # "succeeded" => mockJobs[id].result = Undefined)
    /\ [][\A id \in Registered :
            /\ mockJobs[id].status = "queued"
                  => mockJobs'[id].status \in {"queued", "processing", "canceled"}
            /\ mockJobs'[id].status = "processing"
                  => mockJobs[id].status \in {"queued", "processing"}
            /\ mockJobs'[id].status = "succeeded"
                  => mockJobs[id].status \in {"processing", "succeeded"}]_vars

\* A job that ran to completion, with its video URL.
C3_Witness ==
    \E id \in Registered :
        /\ mockJobs[id].status = "succeeded"
        /\ mockJobs[id].result = [video_url |-> VideoUrl(id)]
        /\ mockJobs[id].updated_at = mockJobs[id].created_at + CompletionDelay

\* C4: a job of the registry has a result exactly when it is succeeded and
\* an error exactly when it is failed.
C4_ResultIffSucceeded ==
    \A id \in Registered :
        /\ (mockJobs[id].result # Undefined) <=> (mockJobs[id].status = "succeeded")
        /\ (mockJobs[id].error # Undefined) <=> (mockJobs[id].status = "failed")

\* A succeeded job with a result next to a canceled job without one.
C4_Witness ==
    \E id \in Registered, other \in Registered :
        /\ mockJobs[id].status = "succeeded" /\ mockJobs[id].result # Undefined
        /\ mockJobs[other].status = "canceled" /\ mockJobs[other].result = Undefined

\* The result a reply shows (undefined when the reply has none).
ShownResult(body) == IF "result" \in DOMAIN body THEN body.result ELSE Undefined

\* C5: Cancel on a job that is already terminal replies 200 with the job's
\* status, updated_at and result as they were, changes neither the registry
\* nor the timers, and a Cancel repeated right after replies the same.
C5_CancelTerminalNoOp ==
    [][\A id \in Registered :
          (mockJobs[id].status \in Terminal /\ DeleteJob(id))
             => /\ response'.status = 200
                /\ response'.body.status = mockJobs[id].status
                /\ response'.body.updated_at = mockJobs[id].updated_at
                /\ ShownResult(response'.body) = mockJobs[id].result
                /\ mockJobs' = mockJobs
                /\ timerTable' = timerTable
                /\ (response.op = "cancel" /\ response.id = id)
                      => /\ response'.status = response.status
                         /\ response'.body.status = response.body.status
                         /\ response'.body.updated_at = response.body.updated_at
                         /\ ShownResult(response'.body) = ShownResult(response.body)]_vars

\* Cancel has just been called on a job that became terminal at an earlier
\* instant.
C5_Witness ==
    \E id \in Registered :
        /\ mockJobs[id].status \in Terminal
        /\ mockJobs[id].updated_at < now
        /\ response.op = "cancel" /\ response.id = id /\ response.status = 200

\* The fields of the job projection.
ProjectionFields ==
    {"id", "status", "created_at", "updated_at", "options", "result", "error"}

\* C6: every job the simulator returns from Create, Get or Cancel has only
\* the fields of the projection; the timers are never part of it.
C6_ProjectionOnly ==
    (MOCK_MODE /\ response.status \in {200, 202})
        => DOMAIN response.body \subseteq ProjectionFields

(***************************************************************************)
(* Properties of the routes.                                               *)
(***************************************************************************)
\* A prompt that is missing, empty or not text.
BadPrompt(body) ==
    \/ body.prompt \in {Undefined, Null}
    \/ body.prompt.t # "string"
    \/ body.prompt.v = <<>>

\* C7: Create with a missing, empty or non-text prompt replies 400, leaves
\* the registry and the timers as they were and issues no upstream request.
C7_BadPromptRejected ==
    [][\A body \in Bodies :
          (BadPrompt(body) /\ PostGenerate(body))
             => /\ response' = Reply("create", "", 400, ErrorBody("Prompt is required"))
                /\ UNCHANGED <<mockJobs, timerTable, inflight, fetchCount>>]_vars

\* A bad prompt has just been rejected by a proxy that holds a credential
\* and has sent nothing upstream.
C7_Witness ==
    /\ ~MOCK_MODE /\ SORA_API_KEY # ""
    /\ response.op = "create" /\ response.status = 400
    /\ fetchCount = 0

\* C8: simulator Create with a non-empty text prompt registers exactly one
\* new job, under an identifier that is non-empty and new, and replies 202
\* with that job: queued, created_at = updated_at, no result, no error.
C8_CreateRegistersQueued ==
    [][\A body \in Bodies :
          (MOCK_MODE /\ ~BadPrompt(body) /\ PostGenerate(body))
             => /\ response'.op = "create" /\ response'.status = 202
                /\ response'.body.status = "queued"
                /\ response'.body.id # ""
                /\ response'.body.id \notin Registered
                /\ response'.body.created_at = response'.body.updated_at
                /\ response'.body.options.prompt = body.prompt
                /\ "result" \notin DOMAIN response'.body
                /\ "error" \notin DOMAIN response'.body
                /\ DOMAIN mockJobs' = Registered \cup {response'.body.id}
                /\ \A k \in Registered : mockJobs'[k] = mockJobs[k]
                /\ json(serializeJob(mockJobs'[response'.body.id])) = response'.body]_vars

\* A second job has just been created next to an earlier one.
C8_Witness ==
    /\ response.op = "create" /\ response.status = 202
    /\ Cardinality(Registered) = 2
    /\ response.body.id \in Registered

\* C9: in simulator mode Get and Cancel on an identifier that is not in the
\* registry reply 404 "Job not found" and change neither the registry nor
\* the timers.
C9_UnknownIdNotFound ==
    [][\A id \in RequestIds \ Registered :
          /\ (MOCK_MODE /\ GetJob(id))
                => /\ response' = Reply("get", id, 404, ErrorBody("Job not found"))
                   /\ UNCHANGED <<mockJobs, timerTable>>
          /\ (MOCK_MODE /\ DeleteJob(id))
                => /\ response' = Reply("cancel", id, 404, ErrorBody("Job not found"))
                   /\ UNCHANGED <<mockJobs, timerTable>>]_vars

\* Cancel has just been refused for an unknown identifier while the registry
\* holds a job with pending timers.
C9_Witness ==
    /\ MOCK_MODE
    /\ response.op = "cancel" /\ response.status = 404
    /\ response.id \notin Registered
    /\ timerTable # {}

NoCredential == ~MOCK_MODE /\ SORA_API_KEY = ""

ConfigErrorReply(op, id) == Reply(op, id, 500, ConfigError)

\* C10 as stated: without a credential, in proxy mode, every Create, Get and
\* Cancel replies with the configuration error and sends nothing upstream.
C10_AlwaysConfigError ==
    [][NoCredential =>
          /\ \A body \in Bodies :
                PostGenerate(body)
                   => /\ response' = ConfigErrorReply("create", "")
                      /\ UNCHANGED <<inflight, fetchCount>>
          /\ \A id \in RequestIds :
                /\ GetJob(id) => /\ response' = ConfigErrorReply("get", id)
                                 /\ UNCHANGED <<inflight, fetchCount>>
                /\ DeleteJob(id) => /\ response' = ConfigErrorReply("cancel", id)
                                    /\ UNCHANGED <<inflight, fetchCount>>]_vars

\* C10, amended: without a credential, in proxy mode, no request is ever
\* sent upstream; Get, Cancel and Create with a usable prompt reply with the
\* configuration error, Create with a bad prompt replies with the validation
\* error; and the credential does not change while the process runs.
C10_ConfigErrorAfterValidation ==
    /\ [](NoCredential => fetchCount = 0 /\ inflight = {})
    /\ [][NoCredential =>
            /\ SORA_API_KEY' = SORA_API_KEY /\ MOCK_MODE' = MOCK_MODE
            /\ \A body \in Bodies :
                  PostGenerate(body)
                     => /\ response' = IF BadPrompt(body)
                                       THEN Reply("create", "", 400,
                                                  ErrorBody("Prompt is required"))
                                       ELSE ConfigErrorReply("create", "")
                        /\ UNCHANGED <<inflight, fetchCount>>
            /\ \A id \in RequestIds :
                  /\ GetJob(id) => /\ response' = ConfigErrorReply("get", id)
                                   /\ UNCHANGED <<inflight, fetchCount>>
                  /\ DeleteJob(id) => /\ response' = ConfigErrorReply("cancel", id)
                                      /\ UNCHANGED <<inflight, fetchCount>>]_vars

\* Create with a usable prompt has just been refused for want of a
\* credential.
C10_Witness ==
    /\ NoCredential
    /\ response = ConfigErrorReply("create", "")

(***************************************************************************)
(* Properties of the proxy.                                                *)
(***************************************************************************)
\* The body of an upstream response, as the bytes it carries.
UpstreamBodyOf(o) == IF o.json THEN o.data ELSE [raw |-> "not JSON"]

Responses == {o \in UpstreamOutcomes : o.kind = "response"}

\* C11 as stated: whenever the upstream answers a proxied Create, the reply
\* has the upstream's status code and body, success codes included.
C11_CreateVerbatim ==
    [][\A r \in inflight, o \in Responses :
          (r.op = "create" /\ Resume(r, o))
             => /\ response'.status = o.status
                /\ response'.body = UpstreamBodyOf(o)]_vars

\* C11, amended: whenever the upstream answers a proxied Create with a JSON
\* body, the reply carries that body, with the upstream's status code when
\* it is not a success code and with 202 for every success code; when the
\* upstream body is not JSON the reply is the 500 of the catch block.
C11_CreateRelay ==
    [][\A r \in inflight, o \in Responses :
          (r.op = "create" /\ Resume(r, o))
             => IF o.json
                THEN /\ response'.op = "create"
                     /\ response'.status = IF ok(o.status) THEN 202 ELSE o.status
                     /\ response'.body = o.data
                ELSE response' = Reply("create", "", 500,
                        ErrorBody("Failed to create video generation job"))]_vars

\* A proxied Create has just been answered 202.
C11_Witness ==
    /\ ~MOCK_MODE /\ fetchCount = 1 /\ inflight = {}
    /\ response.op = "create" /\ response.status = 202
    /\ response.body \in UpstreamData

\* C12 as stated: whenever the upstream answers a proxied Get, the reply has
\* the upstream's status code and body, for every status code.
C12_GetVerbatim ==
    [][\A r \in inflight, o \in Responses :
          (r.op = "get" /\ Resume(r, o))
             => /\ response'.status = o.status
                /\ response'.body = UpstreamBodyOf(o)]_vars

\* C12, amended: whenever the upstream answers a proxied Get with a JSON
\* body, the reply carries that body, with the upstream's status code when
\* it is not a success code (404 included) and with 200 for every success
\* code; when the upstream body is not JSON the reply is the 500 of the
\* catch block.
C12_GetRelay ==
    [][\A r \in inflight, o \in Responses :
          (r.op = "get" /\ Resume(r, o))
             => IF o.json
                THEN /\ response'.op = "get" /\ response'.id = r.id
                     /\ response'.status = IF ok(o.status) THEN 200 ELSE o.status
                     /\ response'.body = o.data
                ELSE response' = Reply("get", r.id, 500,
                        ErrorBody("Failed to fetch video generation job"))]_vars

\* A proxied Get has just relayed an upstream 404.
C12_Witness ==
    /\ ~MOCK_MODE /\ fetchCount = 1 /\ inflight = {}
    /\ response.op = "get" /\ response.status = 404
    /\ response.body \in UpstreamData

\* C13 as stated: a proxied Cancel answers an upstream 204 with 204 and no
\* body, and every upstream status that is not a success code with the same
\* status code and the upstream body.
C13_CancelVerbatim ==
    [][\A r \in inflight, o \in Responses :
          (r.op = "cancel" /\ Resume(r, o))
             => /\ o.status = 204 => response' = Reply("cancel", r.id, 204, NoBody)
                /\ ~ok(o.status)
                      => /\ response'.status = o.status
                         /\ response'.body = UpstreamBodyOf(o)]_vars

\* C13, amended: a proxied Cancel answers an upstream 204 with 204 and no
\* body whatever the upstream body is, and every upstream status that is
\* not a success code and comes with a JSON body with the same status code
\* and that body; with a body that is not JSON the reply is the 500 of the
\* catch block.
C13_CancelRelay ==
    [][\A r \in inflight, o \in Responses :
          (r.op = "cancel" /\ Resume(r, o))
             => /\ o.status = 204 => response' = Reply("cancel", r.id, 204, NoBody)
                /\ (~ok(o.status) /\ o.json)
                      => response' = Reply("cancel", r.id, o.status, o.data)
                /\ (~ok(o.status) /\ ~o.json)
                      => response' = Reply("cancel", r.id, 500,
                            ErrorBody("Failed to cancel video generation job"))]_vars

\* A proxied Cancel has just passed an upstream 204 on.
C13_Witness ==
    /\ ~MOCK_MODE /\ fetchCount = 1 /\ inflight = {}
    /\ response = Reply("cancel", "unknown", 204, NoBody)

\* The diagnostic of each route's catch block.
FailureDiagnostic(op) ==
    CASE op = "create" -> "Failed to create video generation job"
      [] op = "get" -> "Failed to fetch video generation job"
      [] op = "cancel" -> "Failed to cancel video generation job"

\* C14: a step sends at most one request upstream, the continuation of a
\* handler sends none, and a fetch that fails ends its handler with status
\* 500 and the fixed diagnostic of the route, whatever the failure was.
C14_OneAttempt ==
    [][/\ fetchCount' \in {fetchCount, fetchCount + 1}
       /\ Cardinality(inflight') <= Cardinality(inflight) + 1
       /\ \A r \in inflight, o \in UpstreamOutcomes :
             Resume(r, o)
                => /\ fetchCount' = fetchCount
                   /\ inflight' = inflight \ {r}
                   /\ o.kind = "reject"
                         => response' = Reply(r.op, r.id, 500,
                                              ErrorBody(FailureDiagnostic(r.op)))]_vars

\* The one request a proxied Cancel sent has failed and the handler has
\* replied.
C14_Witness ==
    /\ ~MOCK_MODE /\ fetchCount = 1 /\ inflight = {}
    /\ response = Reply("cancel", "uuid-1", 500,
                        ErrorBody("Failed to cancel video generation job"))

(***************************************************************************)
(* Properties of the two modes.                                            *)
(***************************************************************************)
\* C16: with the mock flag set nothing is ever sent upstream and no reply
\* is the configuration error, with or without a credential; with the flag
\* unset the registry stays empty and no timer is ever scheduled; the flag
\* does not change while the process runs.
C16_ModesExclusive ==
    /\ [](MOCK_MODE => /\ fetchCount = 0 /\ inflight = {}
                       /\ response.body # ConfigError)
    /\ [](~MOCK_MODE => mockJobs = <<>> /\ timerTable = {})
    /\ [][MOCK_MODE' = MOCK_MODE]_vars

\* Without a credential the simulator has created a job and served a Get
\* of it.
C16_Witness ==
    /\ MOCK_MODE /\ SORA_API_KEY = ""
    /\ mockJobs # <<>> /\ timerTable # {}
    /\ response.op = "get" /\ response.status = 200

(***************************************************************************)
(* Properties of the registry.                                             *)
(***************************************************************************)
\* C17: for every job of the simulator updated_at is never before
\* created_at and never decreases; created_at never changes; a job enters
\* the registry with both set to the clock; every change of status sets
\* updated_at to the clock at the change; and Get, and Cancel of a job that
\* is already terminal, leave the registry as it is.
C17_UpdatedAt ==
    /\ [](\A id \in Registered :
             /\ mockJobs[id].created_at <= mockJobs[id].updated_at
             /\ mockJobs[id].updated_at <= now)
    /\ [][/\ \A id \in Registered :
                /\ id \in DOMAIN mockJobs'
                /\ mockJobs'[id].created_at = mockJobs[id].created_at
                /\ mockJobs'[id].updated_at >= mockJobs[id].updated_at
                /\ mockJobs'[id].updated_at =
                      IF mockJobs'[id].status # mockJobs[id].status
                      THEN now'
                      ELSE mockJobs[id].updated_at
          /\ \A id \in DOMAIN mockJobs' \ Registered :
                /\ mockJobs'[id].created_at = now'
                /\ mockJobs'[id].updated_at = now'
          /\ \A id \in RequestIds :
                /\ GetJob(id) => mockJobs' = mockJobs
                /\ (DeleteJob(id) /\ StatusOf(id) \in Terminal)
                      => mockJobs' = mockJobs]_vars

\* A job that became terminal some time ago, after its creation, has just
\* been read or cancelled again.
C17_Witness ==
    \E id \in Registered :
       /\ mockJobs[id].status \in Terminal
       /\ mockJobs[id].created_at < mockJobs[id].updated_at
       /\ mockJobs[id].updated_at < now
       /\ response.op \in {"get", "cancel"}
       /\ response.id = id /\ response.status = 200

\* C18: a job of the simulator is never removed from the registry, its id
\* and its options never change, and a Get of its id replies 200 with that
\* id and those options, never not-found.
C18_JobsRetained ==
    /\ [](\A id \in Registered : mockJobs[id].id = id)
    /\ [][\A id \in Registered :
             /\ id \in DOMAIN mockJobs'
             /\ mockJobs'[id].id = id
             /\ mockJobs'[id].options = mockJobs[id].options
             /\ GetJob(id) => /\ response'.status = 200
                              /\ response'.body.id = id
                              /\ response'.body.options = mockJobs[id].options]_vars

\* A job that was cancelled is still served by Get, next to a second job.
C18_Witness ==
    \E id \in Registered :
       /\ mockJobs[id].status = "canceled"
       /\ Cardinality(Registered) = 2
       /\ response.op = "get" /\ response.id = id /\ response.status = 200
       /\ response.body.id = id

(***************************************************************************)
(* Properties of the page.                                                 *)
(***************************************************************************)
\* C15: when a poll of a job is answered 404, or a submission is answered
\* with the validation error 400, the page sets no timer and starts no
\* poll.
C15_NotFoundIsTerminal ==
    [][/\ \A p \in polls : \A o \in ClientOutcomes(p.job) :
             (o.kind = "response" /\ o.status = 404 /\ PollResume(p, o))
                => timeouts' \subseteq timeouts /\ polls' \subseteq polls
       /\ \A c \in calls : \A o \in SubmitOutcomes :
             (o.kind = "response" /\ o.status = 400 /\ SubmitResume(c, o))
                => timeouts' \subseteq timeouts /\ polls' \subseteq polls]_vars

\* C19: whenever a poll is answered with a job whose status normalizes to
\* queued or processing, the page schedules the next poll of that job.
C19_PollsUntilTerminal ==
    [][\A p \in polls : \A o \in ClientOutcomes(p.job) :
          (/\ o.kind = "response" /\ ok(o.status) /\ o.json
           /\ normalizeStatus(o.data.status) \in {"queued", "processing"}
           /\ PollResume(p, o))
             => \E h \in timeouts' \ timeouts :
                   h.job = p.job /\ pollTimer' = h]_vars

\* C20: once a submission or a load has reset the page and another job has
\* become the current one, the answer to a poll begun before the reset sets
\* no timer and changes neither pollTimer, nor what is shown, nor
\* currentJobId.
C20_OneLoop ==
    [][\A p \in polls : \A o \in ClientOutcomes(p.job) :
          (/\ p.gen < generation
           /\ Truthy(currentJobId) /\ p.job # currentJobId
           /\ PollResume(p, o))
             => UNCHANGED <<timeouts, pollTimer, jobIdEl, shownStatus,
                            currentJobId>>]_vars

====
